---- MODULE Spec2Model ----
(***************************************************************************)
(* State-machine model of contextwatch: the manual stepwise inference loop *)
(* (contextwatch/inference_loop.py) and the three monitors                 *)
(* (contextwatch/monitor/{context,latency,memory}_tracker.py).             *)
(*                                                                         *)
(* Two specifications share the variables:                                 *)
(*   SpecRun  one call of run_inference against a scripted model           *)
(*   Spec     one tracker object driven by an arbitrary caller             *)
(***************************************************************************)
EXTENDS Integers, Sequences, FiniteSets, TLC

\* ------------------------------------------------------------------------
\* Bounds of the model
\* ------------------------------------------------------------------------
MaxPrompt == 2          \* longest prompt, in tokens
MaxTokens == 3          \* largest max_tokens argument
VocabSize == 3          \* token ids are 0 .. VocabSize-1
MaxCtxSnapshots == 3    \* record_step calls on a ContextTracker
MaxLatSnapshots == 2    \* record_step calls on a LatencyTracker
MaxMemSnapshots == 2    \* record_step calls on a MemoryTracker
MaxStepArg == 1         \* largest step index a caller passes
MaxTotalTokens == 2     \* largest total_tokens a caller passes
MaxTime == 1            \* largest timestamp, in clock ticks of 1 ms
MaxTrendSnapshots == 4  \* record_step calls of a latency series (SpecTrend)

\* Python's None, for the optional integers (token ids, handles, RSS and
\* timestamps are never negative).
None == 0 - 1

Vocab == 0 .. (VocabSize - 1)

\* ------------------------------------------------------------------------
\* State
\* ------------------------------------------------------------------------
VARIABLES
    \* --- run_inference ---------------------------------------------------
    pc,                 \* "idle" | "loop" | "returned" | "raised"
    prompt_ids,         \* what the tokenizer yields for the prompt
    max_tokens,         \* the max_tokens argument
    eos_token_id,       \* tokenizer.eos_token_id (None or a token id)
    prompt_token_count,
    step,               \* loop variable of `for step in range(max_tokens)`
    generated_ids,
    current_input_ids,
    past_key_values,    \* None or the handle returned by the last forward
    model_calls,        \* every model(...) invocation, in order
    terminal,           \* how the loop was left
    result,             \* <<>> or <<InferenceResult>>
    \* --- the tracker object under test -----------------------------------
    kind,               \* "context" | "latency" | "memory" ("none" in a run)
    last_op,            \* name of the last method called ("init": none yet)
    args,               \* arguments of the last call
    ret,                \* <<>> or <<value returned by the last call>>
    \* ContextTracker
    max_context, warn_threshold, ctx_snapshots, warning_issued, stderr,
    \* LatencyTracker
    rolling_window, lat_snapshots, start_time, ttft_ms,
    \* MemoryTracker
    initial_rss, peak_rss, mem_snapshots

runVars == <<pc, prompt_ids, max_tokens, eos_token_id, prompt_token_count,
             step, generated_ids, current_input_ids, past_key_values,
             model_calls, terminal, result>>
harnessVars == <<kind, last_op, args, ret>>
ctxVars == <<max_context, warn_threshold, ctx_snapshots, warning_issued, stderr>>
latVars == <<rolling_window, lat_snapshots, start_time, ttft_ms>>
memVars == <<initial_rss, peak_rss, mem_snapshots>>
trackerVars == <<harnessVars, ctxVars, latVars, memVars>>
vars == <<runVars, trackerVars>>

\* ------------------------------------------------------------------------
\* Arithmetic helpers
\* ------------------------------------------------------------------------
Max(a, b) == IF a >= b THEN a ELSE b
Min(a, b) == IF a <= b THEN a ELSE b
Abs(a) == IF a < 0 THEN 0 - a ELSE a

\* floor(n / d) for d > 0 and any integer n
FloorDiv(n, d) == IF n >= 0 THEN n \div d ELSE 0 - ((0 - n + d - 1) \div d)

\* Python's round(): n / d (d > 0) to the nearest integer, ties to even.
RoundHalfEven(n, d) ==
    LET q == FloorDiv(n, d)
        r == n - q * d
    IN  IF 2 * r < d THEN q
        ELSE IF 2 * r > d THEN q + 1
        ELSE IF q % 2 = 0 THEN q ELSE q + 1

RECURSIVE SeqSum(_)
SeqSum(s) == IF s = <<>> THEN 0 ELSE Head(s) + SeqSum(Tail(s))

RECURSIVE Gcd(_, _)
Gcd(a, b) == IF b = 0 THEN a ELSE Gcd(b, a % b)

\* The quotient n / d (d # 0) as a fraction in lowest terms.
Frac(n, d) ==
    LET g == Gcd(Abs(n), Abs(d))
        s == IF d < 0 THEN 0 - 1 ELSE 1
    IN  [num |-> (s * n) \div g, den |-> (s * d) \div g]

\* ------------------------------------------------------------------------
\* run_inference (inference_loop.py)
\* ------------------------------------------------------------------------
PromptSeqs == UNION {[1 .. n -> Vocab] : n \in 0 .. MaxPrompt}

\* tokenize_prompt: the ids and their count (input_ids.shape[1]).
tokenize_prompt(ids) == [input_ids |-> ids, prompt_token_count |-> Len(ids)]

\* tokenizer.decode(ids, skip_special_tokens=True): the text is modelled as
\* the ids that survive the filter.
decode(ids) == SelectSeq(ids, LAMBDA t : t # eos_token_id)

\* The InferenceResult dataclass: exactly these four fields.
InferenceResult(p, g, text) ==
    [prompt_token_count |-> p,
     generated_token_count |-> g,
     total_token_count |-> p + g,
     generated_text |-> text]

\* Lines 128-136: what run_inference returns for the ids generated so far.
BuildResult(ids) == InferenceResult(prompt_token_count, Len(ids), decode(ids))

\* Mutant of InRange: the bound is included.
InRange_Inclusive(i) == 0 <= i /\ i <= max_tokens

\* Line 102: i is one of the values of range(max_tokens).
InRange(i) == 0 <= i /\ i < max_tokens

\* Mutant of IsEos: a tokenizer without an end-of-sequence id counts as
\* having the id 0.
IsEos_NullIsZero(tok) == tok = (IF eos_token_id = None THEN 0 ELSE eos_token_id)

\* Line 116: next_token_id == eos_token_id; no token id equals None.
IsEos(tok) == tok = eos_token_id

\* Mutant of GeneratedAfter: the append comes before the end-of-sequence test.
GeneratedAfter_AppendFirst(ids, tok) == Append(ids, tok)

\* Lines 116-119: generated_ids after an iteration that selected tok; the
\* end-of-sequence token leaves the loop before the append.
GeneratedAfter(ids, tok) == IF IsEos(tok) THEN ids ELSE Append(ids, tok)

\* Lines 85-97, and the for statement when range(max_tokens) is empty.
run_inference_enter ==
    /\ pc = "idle"
    /\ LET prompt_data == tokenize_prompt(prompt_ids)
       IN  /\ current_input_ids' = prompt_data.input_ids
           /\ prompt_token_count' = prompt_data.prompt_token_count
           /\ IF InRange(0)
              THEN /\ pc' = "loop"
                   /\ UNCHANGED <<terminal, result>>
              ELSE /\ pc' = "returned"
                   /\ terminal' = "MaxTokensReached"
                   /\ result' = <<InferenceResult(prompt_data.prompt_token_count,
                                                  0, decode(<<>>))>>
    /\ generated_ids' = <<>>
    /\ past_key_values' = None
    /\ step' = 0
    /\ UNCHANGED <<prompt_ids, max_tokens, eos_token_id, model_calls>>
    /\ UNCHANGED trackerVars

\* One iteration of the loop body (lines 103-124) in which the forward pass
\* returns and argmax selects next_token_id; the function returns when the
\* loop is left.  No line of the loop calls a tracker (lines 99 and 126 are
\* TODO comments).
decode_step(next_token_id) ==
    /\ pc = "loop"
    /\ InRange(step)
    /\ model_calls' = Append(model_calls,
                             [input_ids |-> current_input_ids,
                              past_key_values |-> past_key_values])
    /\ past_key_values' = Len(model_calls) + 1
    /\ generated_ids' = GeneratedAfter(generated_ids, next_token_id)
    /\ IF IsEos(next_token_id)
       THEN /\ pc' = "returned"
            /\ terminal' = "EndOfSequence"
            /\ result' = <<BuildResult(GeneratedAfter(generated_ids, next_token_id))>>
            /\ UNCHANGED <<current_input_ids, step>>
       ELSE /\ current_input_ids' = <<next_token_id>>
            /\ IF InRange(step + 1)
               THEN /\ step' = step + 1
                    /\ UNCHANGED <<pc, terminal, result>>
               ELSE /\ pc' = "returned"
                    /\ terminal' = "MaxTokensReached"
                    /\ result' = <<BuildResult(GeneratedAfter(generated_ids, next_token_id))>>
                    /\ UNCHANGED step
    /\ UNCHANGED <<prompt_ids, max_tokens, eos_token_id, prompt_token_count>>
    /\ UNCHANGED trackerVars

\* Mutant of model_raises: the failure is caught and the tokens generated so
\* far are returned.
model_raises_PartialResult ==
    /\ pc = "loop"
    /\ step < max_tokens
    /\ model_calls' = Append(model_calls,
                             [input_ids |-> current_input_ids,
                              past_key_values |-> past_key_values])
    /\ pc' = "raised"
    /\ result' = <<BuildResult(generated_ids)>>
    /\ UNCHANGED <<prompt_ids, max_tokens, eos_token_id, prompt_token_count,
                   step, generated_ids, current_input_ids, past_key_values,
                   terminal>>
    /\ UNCHANGED trackerVars

\* The forward pass of line 103 raises: nothing catches it.
model_raises ==
    /\ pc = "loop"
    /\ step < max_tokens
    /\ model_calls' = Append(model_calls,
                             [input_ids |-> current_input_ids,
                              past_key_values |-> past_key_values])
    /\ pc' = "raised"
    /\ UNCHANGED <<prompt_ids, max_tokens, eos_token_id, prompt_token_count,
                   step, generated_ids, current_input_ids, past_key_values,
                   terminal, result>>
    /\ UNCHANGED trackerVars

\* The name under which a summarize() call is logged: a call that directly
\* follows another summarize() is told apart from a first one.
SummarizeOps == {"summarize", "summarize_again"}
SummarizeOp == IF last_op \in SummarizeOps THEN "summarize_again" ELSE "summarize"

\* ------------------------------------------------------------------------
\* ContextTracker (monitor/context_tracker.py)
\*
\* warn_threshold is held in hundredths (75 is 0.75) and context_used_pct
\* in millionths, the six decimals that round(used_pct, 6) keeps.
\* ------------------------------------------------------------------------
MaxContexts == {0, 1, 2}        \* values _get_max_context may return
WarnThresholds == {0, 50, 75}
DefaultWarnThreshold == 75

\* Mutant of UsedPct: a tracker without a positive maximum counts as full.
UsedPct_FullWithoutMaximum(total_tokens) ==
    IF max_context > 0 THEN [num |-> total_tokens, den |-> max_context]
                       ELSE [num |-> 1, den |-> 1]

\* Line 73: total_tokens / max_context, or 0.0 without a positive maximum.
UsedPct(total_tokens) ==
    IF max_context > 0 THEN [num |-> total_tokens, den |-> max_context]
                       ELSE [num |-> 0, den |-> 1]

\* round(used_pct, 6), in millionths
Round6(f) == RoundHalfEven(f.num * 1000000, f.den)

\* Mutant of Remaining: no clamp at zero.
Remaining_Unclamped(total_tokens) == max_context - total_tokens

\* Line 74
Remaining(total_tokens) == Max(max_context - total_tokens, 0)

\* Mutant of ReachesThreshold: exclusive comparison.
ReachesThreshold_Strict(f) == f.num * 100 > warn_threshold * f.den

\* Line 86, right operand: used_pct >= self._warn_threshold
ReachesThreshold(f) == f.num * 100 >= warn_threshold * f.den

\* Mutant of ShouldWarn: the flag is not consulted.
ShouldWarn_NoFlag(f) == f.num * 100 >= warn_threshold * f.den

\* Line 86: the condition under which the warning is printed.
ShouldWarn(f) == (~warning_issued) /\ ReachesThreshold(f)

\* Mutant of ContextSnapshot: the step index is the snapshot's position.
ContextSnapshot_StepIsPosition(s, total_tokens) ==
    [step |-> Len(ctx_snapshots),
     total_tokens |-> total_tokens,
     max_context |-> max_context,
     context_used_pct |-> Round6(UsedPct(total_tokens)),
     remaining_tokens |-> Remaining(total_tokens)]

\* Lines 76-82.
ContextSnapshot(s, total_tokens) ==
    [step |-> s,
     total_tokens |-> total_tokens,
     max_context |-> max_context,
     context_used_pct |-> Round6(UsedPct(total_tokens)),
     remaining_tokens |-> Remaining(total_tokens)]

ContextTracker_record_step(s, total_tokens) ==
    /\ kind = "context"
    /\ args' = <<s, total_tokens>>
    /\ LET used_pct == UsedPct(total_tokens)
           snap == ContextSnapshot(s, total_tokens)
       IN  /\ ctx_snapshots' = Append(ctx_snapshots, snap)
           /\ IF ShouldWarn(used_pct)
              THEN /\ stderr' = Append(stderr,
                                       [call |-> Len(ctx_snapshots) + 1,
                                        total_tokens |-> total_tokens,
                                        max_context |-> max_context])
                   /\ warning_issued' = TRUE
              ELSE UNCHANGED <<stderr, warning_issued>>
           /\ ret' = <<snap>>
    /\ last_op' = "record_step"
    /\ UNCHANGED <<kind, max_context, warn_threshold>>
    /\ UNCHANGED <<runVars, latVars, memVars>>

\* Mutant of ContextSummary: the totals are those of the first snapshot.
ContextSummary_FirstSnapshot ==
    IF ctx_snapshots # <<>>
    THEN LET first == ctx_snapshots[1]
         IN  [max_context |-> max_context,
              final_total_tokens |-> first.total_tokens,
              context_used_pct |-> first.context_used_pct,
              remaining_tokens |-> first.remaining_tokens,
              per_step_snapshots |-> ctx_snapshots,
              warning_issued |-> warning_issued]
    ELSE [max_context |-> max_context,
          final_total_tokens |-> 0,
          context_used_pct |-> 0,
          remaining_tokens |-> max_context,
          per_step_snapshots |-> <<>>,
          warning_issued |-> warning_issued]

\* Lines 102-122: the value summarize() returns.
ContextSummary ==
    IF ctx_snapshots # <<>>
    THEN LET last == ctx_snapshots[Len(ctx_snapshots)]
         IN  [max_context |-> max_context,
              final_total_tokens |-> last.total_tokens,
              context_used_pct |-> last.context_used_pct,
              remaining_tokens |-> last.remaining_tokens,
              per_step_snapshots |-> ctx_snapshots,
              warning_issued |-> warning_issued]
    ELSE [max_context |-> max_context,
          final_total_tokens |-> 0,
          context_used_pct |-> 0,
          remaining_tokens |-> max_context,
          per_step_snapshots |-> <<>>,
          warning_issued |-> warning_issued]

\* Mutant of ContextAfterSummarize: the call clears the warning flag.
ContextAfterSummarize_ClearsWarning ==
    [snapshots |-> ctx_snapshots, warning_issued |-> FALSE]

\* What summarize() leaves of the tracker's fields.
ContextAfterSummarize ==
    [snapshots |-> ctx_snapshots, warning_issued |-> warning_issued]

ContextTracker_summarize ==
    /\ kind = "context"
    /\ args' = <<>>
    /\ ret' = <<ContextSummary>>
    /\ last_op' = SummarizeOp
    /\ ctx_snapshots' = ContextAfterSummarize.snapshots
    /\ warning_issued' = ContextAfterSummarize.warning_issued
    /\ UNCHANGED <<kind, max_context, warn_threshold, stderr>>
    /\ UNCHANGED <<runVars, latVars, memVars>>

\* ------------------------------------------------------------------------
\* LatencyTracker (monitor/latency_tracker.py)
\*
\* Timestamps are perf_counter readings counted in ticks of 1 ms, so
\* (end - start) * 1000.0 is the difference of the ticks.  Quotients are
\* kept as exact fractions in lowest terms.
\* ------------------------------------------------------------------------
RollingWindows == {1, 2}
Times == 0 .. MaxTime

\* Mutant of LastN: the window is taken from the front.
LastN_First(s, n) == SubSeq(s, 1, Min(n, Len(s)))

\* Python's s[-n:] for n >= 1
LastN(s, n) == SubSeq(s, Max(1, Len(s) - n + 1), Len(s))

LatencySnapshot(s, step_start_time, step_end_time) ==
    [step |-> s,
     timestamp |-> step_end_time,
     latency_ms |-> step_end_time - step_start_time]

LatencyTracker_start(now) ==
    /\ kind = "latency"
    /\ args' = <<>>
    /\ start_time' = now
    /\ last_op' = "start"
    /\ ret' = <<>>
    /\ UNCHANGED <<kind, rolling_window, lat_snapshots, ttft_ms>>
    /\ UNCHANGED <<runVars, ctxVars, memVars>>

\* Mutant of TtftAfter: every step measures against the baseline.
TtftAfter_AnyStep(s, step_end_time) ==
    IF start_time # None THEN <<step_end_time - start_time>> ELSE ttft_ms

\* Lines 69-70: _ttft_ms after a record_step; <<>> is None.
TtftAfter(s, step_end_time) ==
    IF s = 0 /\ start_time # None THEN <<step_end_time - start_time>> ELSE ttft_ms

LatencyTracker_record_step(s, step_start_time, step_end_time) ==
    /\ kind = "latency"
    /\ args' = <<s, step_start_time, step_end_time>>
    /\ LET snap == LatencySnapshot(s, step_start_time, step_end_time)
       IN  /\ lat_snapshots' = Append(lat_snapshots, snap)
           /\ ret' = <<snap>>
    /\ ttft_ms' = TtftAfter(s, step_end_time)
    /\ last_op' = "record_step"
    /\ UNCHANGED <<kind, rolling_window, start_time>>
    /\ UNCHANGED <<runVars, ctxVars, memVars>>

\* Lines 111-123; <<>> is None, <<f>> the mean as a fraction.
compute_rolling_average ==
    IF lat_snapshots = <<>> THEN <<>>
    ELSE LET window == LastN(lat_snapshots, rolling_window)
             latencies == [i \in 1 .. Len(window) |-> window[i].latency_ms]
         IN  IF latencies = <<>> THEN <<>>
             ELSE <<Frac(SeqSum(latencies), Len(latencies))>>

\* Mutant of TrendData: only the rolling window is fitted.
TrendData_Window == LastN(lat_snapshots, rolling_window)

\* Line 135: the snapshots the (x, y) pairs are taken from.
TrendData == lat_snapshots

\* Lines 125-154; <<>> is None, <<f>> the slope times 100 as a fraction.
compute_trend_slope ==
    IF Len(lat_snapshots) < 2 THEN <<>>
    ELSE LET n == Len(TrendData)
             xs == [i \in 1 .. n |-> TrendData[i].step]
             ys == [i \in 1 .. n |-> TrendData[i].latency_ms]
             sum_x == SeqSum(xs)
             sum_y == SeqSum(ys)
             sum_xy == SeqSum([i \in 1 .. n |-> xs[i] * ys[i]])
             sum_x2 == SeqSum([i \in 1 .. n |-> xs[i] * xs[i]])
             denominator == n * sum_x2 - sum_x * sum_x
         IN  IF denominator = 0 THEN <<>>
             ELSE <<Frac((n * sum_xy - sum_x * sum_y) * 100, denominator)>>

\* Lines 81-107: the value summarize() returns.
LatencySummary ==
    IF lat_snapshots = <<>>
    THEN [ttft_ms |-> <<>>,
          current_token_latency_ms |-> <<>>,
          rolling_avg_ms |-> <<>>,
          trend_ms_per_100_tokens |-> <<>>,
          per_step_snapshots |-> <<>>]
    ELSE [ttft_ms |-> ttft_ms,
          current_token_latency_ms |-> <<lat_snapshots[Len(lat_snapshots)].latency_ms>>,
          rolling_avg_ms |-> compute_rolling_average,
          trend_ms_per_100_tokens |-> compute_trend_slope,
          per_step_snapshots |-> lat_snapshots]

\* Mutant of LatencyAfterSummarize: the history is trimmed to the window.
LatencyAfterSummarize_TrimsToWindow ==
    [snapshots |-> LastN(lat_snapshots, rolling_window),
     start_time |-> start_time, ttft_ms |-> ttft_ms]

\* What summarize() leaves of the tracker's fields.
LatencyAfterSummarize ==
    [snapshots |-> lat_snapshots, start_time |-> start_time, ttft_ms |-> ttft_ms]

LatencyTracker_summarize ==
    /\ kind = "latency"
    /\ args' = <<>>
    /\ ret' = <<LatencySummary>>
    /\ last_op' = SummarizeOp
    /\ lat_snapshots' = LatencyAfterSummarize.snapshots
    /\ start_time' = LatencyAfterSummarize.start_time
    /\ ttft_ms' = LatencyAfterSummarize.ttft_ms
    /\ UNCHANGED <<kind, rolling_window>>
    /\ UNCHANGED <<runVars, ctxVars, memVars>>

\* ------------------------------------------------------------------------
\* MemoryTracker (monitor/memory_tracker.py)
\*
\* RSS is in bytes; the *_mb fields are in hundredths of a MiB (the two
\* decimals round(x, 2) keeps), avg_growth_per_token_mb in ten-thousandths.
\* ------------------------------------------------------------------------
BYTES_PER_MB == 1024 * 1024

\* Values memory_info().rss may return: 1.00, 1.51 and 3.00 MiB.
RssValues == {1048576, 1581056, 3145728}

\* round(bytes / _BYTES_PER_MB, 2), in hundredths
RoundMb2(bytes) == RoundHalfEven(bytes * 100, BYTES_PER_MB)

\* `x or y` for an optional integer x
Or(x, y) == IF x = None \/ x = 0 THEN y ELSE x

\* Lines 65-68: the fields start() sets from the sample rss.
MemoryAfterStart(rss) == [initial_rss |-> rss, peak_rss |-> rss]

MemoryTracker_start(rss) ==
    /\ kind = "memory"
    /\ args' = <<>>
    /\ initial_rss' = MemoryAfterStart(rss).initial_rss
    /\ peak_rss' = MemoryAfterStart(rss).peak_rss
    /\ last_op' = "start"
    /\ ret' = <<>>
    /\ UNCHANGED <<kind, mem_snapshots>>
    /\ UNCHANGED <<runVars, ctxVars, latVars>>

MemorySnapshot(s, rss) ==
    LET initial == Or(initial_rss, rss)
        delta_bytes == rss - initial
    IN  [step |-> s,
         rss_bytes |-> rss,
         rss_mb |-> RoundMb2(rss),
         delta_from_start_mb |-> RoundMb2(delta_bytes)]

MemoryTracker_record_step(s, rss) ==
    /\ kind = "memory"
    /\ args' = <<s>>
    /\ peak_rss' = Max(peak_rss, rss)
    /\ LET snap == MemorySnapshot(s, rss)
       IN  /\ mem_snapshots' = Append(mem_snapshots, snap)
           /\ ret' = <<snap>>
    /\ last_op' = "record_step"
    /\ UNCHANGED <<kind, initial_rss>>
    /\ UNCHANGED <<runVars, ctxVars, latVars>>

\* Mutant of GrowthBytes: growth is measured from the peak.
GrowthBytes_FromPeak(last_rss, initial) == peak_rss - initial

\* Line 120, before the division: last.rss_bytes - initial
GrowthBytes(last_rss, initial) == last_rss - initial

\* Mutant of MemoryEmptySummary: no current memory without a snapshot.
MemoryEmptySummary_NoCurrent(initial) ==
    [initial_memory_mb |-> RoundMb2(initial),
     current_memory_mb |-> 0,
     peak_memory_mb |-> RoundMb2(peak_rss),
     memory_growth_total_mb |-> 0,
     avg_growth_per_token_mb |-> 0,
     growth_per_100_tokens_mb |-> 0,
     per_step_snapshots |-> <<>>]

\* Lines 106-115: the summary of a tracker without snapshots.
MemoryEmptySummary(initial) ==
    [initial_memory_mb |-> RoundMb2(initial),
     current_memory_mb |-> RoundMb2(initial),
     peak_memory_mb |-> RoundMb2(peak_rss),
     memory_growth_total_mb |-> 0,
     avg_growth_per_token_mb |-> 0,
     growth_per_100_tokens_mb |-> 0,
     per_step_snapshots |-> <<>>]

\* Lines 95-134: the value summarize() returns.  growth * 10000 / 2^20 is
\* computed as growth * 625 / 2^16.
MemorySummary ==
    LET initial == Or(initial_rss, 0)
    IN  IF mem_snapshots = <<>>
        THEN MemoryEmptySummary(initial)
        ELSE LET last == mem_snapshots[Len(mem_snapshots)]
                 growth_bytes == GrowthBytes(last.rss_bytes, initial)
                 n_tokens == Len(mem_snapshots)
             IN  [initial_memory_mb |-> RoundMb2(initial),
                  current_memory_mb |-> RoundMb2(last.rss_bytes),
                  peak_memory_mb |-> RoundMb2(peak_rss),
                  memory_growth_total_mb |-> RoundMb2(growth_bytes),
                  \* round(growth_total_mb / n_tokens, 4), in ten-thousandths
                  avg_growth_per_token_mb |->
                      RoundHalfEven(growth_bytes * 625, 65536 * n_tokens),
                  \* round(avg_growth * 100.0, 2), in hundredths
                  growth_per_100_tokens_mb |->
                      RoundHalfEven(growth_bytes * 625, 65536 * n_tokens),
                  per_step_snapshots |-> mem_snapshots]

\* Mutant of MemoryAfterSummarize: the history is consumed by the call.
MemoryAfterSummarize_Reset ==
    [snapshots |-> <<>>, initial_rss |-> initial_rss, peak_rss |-> peak_rss]

\* What summarize() leaves of the tracker's fields.
MemoryAfterSummarize ==
    [snapshots |-> mem_snapshots, initial_rss |-> initial_rss, peak_rss |-> peak_rss]

MemoryTracker_summarize ==
    /\ kind = "memory"
    /\ args' = <<>>
    /\ ret' = <<MemorySummary>>
    /\ last_op' = SummarizeOp
    /\ mem_snapshots' = MemoryAfterSummarize.snapshots
    /\ initial_rss' = MemoryAfterSummarize.initial_rss
    /\ peak_rss' = MemoryAfterSummarize.peak_rss
    /\ UNCHANGED kind
    /\ UNCHANGED <<runVars, ctxVars, latVars>>

\* ------------------------------------------------------------------------
\* Specifications
\* ------------------------------------------------------------------------
StepArgs == 0 .. MaxStepArg
TotalTokensArgs == 0 .. MaxTotalTokens
MaxTokensArgs == (0 - 1) .. MaxTokens
Kinds == {"context", "latency", "memory"}

\* No call of run_inference is in progress.
RunIdle ==
    /\ pc = "idle"
    /\ prompt_token_count = 0
    /\ step = 0
    /\ generated_ids = <<>>
    /\ current_input_ids = <<>>
    /\ past_key_values = None
    /\ model_calls = <<>>
    /\ terminal = "none"
    /\ result = <<>>

\* The three trackers as their constructors leave them.
TrackersConstructed ==
    /\ last_op = "init"
    /\ args = <<>>
    /\ ret = <<>>
    /\ ctx_snapshots = <<>>
    /\ warning_issued = FALSE
    /\ stderr = <<>>
    /\ lat_snapshots = <<>>
    /\ start_time = None
    /\ ttft_ms = <<>>
    /\ initial_rss = None
    /\ peak_rss = 0
    /\ mem_snapshots = <<>>

\* One tracker object of some kind, freshly constructed; its caller makes
\* a bounded number of record_step calls.
Init ==
    /\ RunIdle
    /\ prompt_ids = <<>>
    /\ max_tokens = 0
    /\ eos_token_id = None
    /\ TrackersConstructed
    /\ kind \in Kinds
    /\ max_context \in (IF kind = "context" THEN MaxContexts ELSE {0})
    /\ warn_threshold \in (IF kind = "context" THEN WarnThresholds
                                               ELSE {DefaultWarnThreshold})
    /\ rolling_window \in (IF kind = "latency" THEN RollingWindows ELSE {1})

\* The latest perf_counter reading the LatencyTracker has been given: the
\* clock is monotonic, so no later reading is smaller.
LastReading ==
    Max(IF start_time = None THEN 0 ELSE start_time,
        IF lat_snapshots = <<>> THEN 0
        ELSE lat_snapshots[Len(lat_snapshots)].timestamp)

Next ==
    \/ /\ Len(ctx_snapshots) < MaxCtxSnapshots
       /\ \E s \in StepArgs, t \in TotalTokensArgs : ContextTracker_record_step(s, t)
    \/ ContextTracker_summarize
    \/ \E now \in Times : LastReading <= now /\ LatencyTracker_start(now)
    \/ /\ Len(lat_snapshots) < MaxLatSnapshots
       /\ \E s \in StepArgs, t0 \in Times, t1 \in Times :
              /\ LastReading <= t0
              /\ t0 <= t1
              /\ LatencyTracker_record_step(s, t0, t1)
    \/ LatencyTracker_summarize
    \/ \E rss \in RssValues : MemoryTracker_start(rss)
    \/ /\ Len(mem_snapshots) < MaxMemSnapshots
       /\ \E s \in StepArgs, rss \in RssValues : MemoryTracker_record_step(s, rss)
    \/ MemoryTracker_summarize

Spec == Init /\ [][Next]_vars

\* A LatencyTracker fed a series of latencies of 10 to 40 ms.  The sums of
\* _compute_trend_slope do not depend on the order of the snapshots, so the
\* steps are passed in nondecreasing order.
TrendSteps == 0 .. (MaxTrendSnapshots - 1)
TrendLatencies == {10, 20, 30, 40}

InitTrend ==
    /\ RunIdle
    /\ prompt_ids = <<>>
    /\ max_tokens = 0
    /\ eos_token_id = None
    /\ TrackersConstructed
    /\ kind = "latency"
    /\ max_context = 0
    /\ warn_threshold = DefaultWarnThreshold
    /\ rolling_window = 2

NextTrend ==
    \/ /\ Len(lat_snapshots) < MaxTrendSnapshots
       /\ \E s \in TrendSteps, y \in TrendLatencies :
              /\ lat_snapshots # <<>> => lat_snapshots[Len(lat_snapshots)].step <= s
              /\ LatencyTracker_record_step(s, 0, y)
    \/ LatencyTracker_summarize

SpecTrend == InitTrend /\ [][NextTrend]_vars

\* A call of run_inference about to be made.
InitRun ==
    /\ RunIdle
    /\ prompt_ids \in PromptSeqs
    /\ max_tokens \in MaxTokensArgs
    /\ eos_token_id \in ({None} \cup Vocab)
    /\ TrackersConstructed
    /\ kind = "none"
    /\ max_context \in MaxContexts
    /\ warn_threshold = DefaultWarnThreshold
    /\ rolling_window = 1

NextRun ==
    \/ run_inference_enter
    \/ \E t \in Vocab : decode_step(t)
    \/ model_raises

SpecRun == InitRun /\ [][NextRun]_vars

\* A call of run_inference in which every forward pass returns.  The function
\* is sequential code: once called it keeps executing, so its next step is
\* taken whenever there is one.
NextReturns ==
    \/ run_inference_enter
    \/ \E t \in Vocab : decode_step(t)

SpecReturns == InitRun /\ [][NextReturns]_vars /\ WF_vars(NextReturns)

\* ------------------------------------------------------------------------
\* The `run` subcommand (cli.py)
\* ------------------------------------------------------------------------
\* inference_loop.py lines 58-63: the parameters of run_inference.
RunInferenceParams == {"model", "tokenizer", "prompt", "max_tokens"}

\* cli.py lines 70-76: the keyword arguments _handle_run passes.
HandleRunKeywords == {"model", "tokenizer", "prompt", "max_tokens", "warn_threshold"}

\* cli.py lines 66-76: _handle_run calls run_inference with the parsed
\* arguments.  Python binds the keywords to the parameters before the body of
\* run_inference runs; a keyword without a parameter is a TypeError, which
\* nothing catches.
handle_run ==
    /\ kind = "cli"
    /\ last_op = "init"
    /\ pc = "idle"
    /\ args' = <<prompt_ids, max_tokens, warn_threshold>>
    /\ LET unexpected == HandleRunKeywords \ RunInferenceParams
       IN  IF unexpected = {}
           THEN /\ last_op' = "run_inference"
                /\ ret' = <<>>
                /\ pc' = pc
           ELSE /\ last_op' = "handle_run"
                /\ ret' = <<[exception |-> "TypeError", unexpected |-> unexpected]>>
                /\ pc' = "raised"
    /\ UNCHANGED <<prompt_ids, max_tokens, eos_token_id, prompt_token_count,
                   step, generated_ids, current_input_ids, past_key_values,
                   model_calls, terminal, result>>
    /\ UNCHANGED <<kind, ctxVars, latVars, memVars>>

\* The console script invoked as `contextwatch run --model M --prompt P
\* --max-tokens N --warn-threshold T`, after parse_args and load_model.
InitCli ==
    /\ RunIdle
    /\ prompt_ids \in PromptSeqs
    /\ max_tokens \in MaxTokensArgs
    /\ eos_token_id \in ({None} \cup Vocab)
    /\ TrackersConstructed
    /\ kind = "cli"
    /\ max_context \in MaxContexts
    /\ warn_threshold \in WarnThresholds
    /\ rolling_window = 1

NextCli == handle_run

SpecCli == InitCli /\ [][NextCli]_vars

\* ------------------------------------------------------------------------
\* Properties of run_inference (checked under SpecRun)
\* ------------------------------------------------------------------------
Returned == pc = "returned" /\ Len(result) = 1

\* C1 (as stated): every completed run has total_token_count =
\* prompt_token_count + generated_token_count and generated_token_count <=
\* max_tokens, for any max_tokens.
C1_AsStated ==
    Returned =>
        /\ result[1].total_token_count =
               result[1].prompt_token_count + result[1].generated_token_count
        /\ result[1].generated_token_count <= max_tokens

\* C1 (amended): every completed run has total_token_count =
\* prompt_token_count + generated_token_count, with the counts those of the
\* prompt and of the generated ids, and generated_token_count <=
\* max(max_tokens, 0): at most max_tokens whenever max_tokens >= 0, and 0 for
\* a negative max_tokens.
C1_TokenAccounting ==
    Returned =>
        /\ result[1].prompt_token_count = Len(prompt_ids)
        /\ result[1].generated_token_count = Len(generated_ids)
        /\ result[1].total_token_count =
               result[1].prompt_token_count + result[1].generated_token_count
        /\ result[1].generated_token_count <= Max(max_tokens, 0)
        /\ (max_tokens >= 0 => result[1].generated_token_count <= max_tokens)

C1_Witness ==
    /\ Returned
    /\ result[1].prompt_token_count > 0
    /\ result[1].generated_token_count = MaxTokens
    /\ result[1].total_token_count > MaxTokens

\* C2: when the end-of-sequence token is selected at iteration k the run
\* ends there with generated_token_count = k: the token is not among the
\* generated ids, no tracker holds a snapshot for step k, and the k+1
\* forward passes made so far stay the only ones.
C2_EosStopsRun ==
    terminal = "EndOfSequence" =>
        /\ Returned
        /\ eos_token_id # None
        /\ step < max_tokens
        /\ result[1].generated_token_count = step
        /\ Len(generated_ids) = step
        /\ \A i \in 1 .. Len(generated_ids) : generated_ids[i] # eos_token_id
        /\ \A i \in 1 .. Len(ctx_snapshots) : ctx_snapshots[i].step # step
        /\ \A i \in 1 .. Len(lat_snapshots) : lat_snapshots[i].step # step
        /\ \A i \in 1 .. Len(mem_snapshots) : mem_snapshots[i].step # step
        /\ Len(model_calls) = step + 1
        /\ ~ ENABLED NextRun

C2_Witness ==
    /\ terminal = "EndOfSequence"
    /\ step = 2
    /\ step < max_tokens
    /\ Len(generated_ids) = 2

\* C3: when a run completes, each of the three trackers holds exactly
\* generated_token_count snapshots, one per emitted token.
C3_SnapshotPerToken ==
    Returned =>
        /\ Len(ctx_snapshots) = result[1].generated_token_count
        /\ Len(lat_snapshots) = result[1].generated_token_count
        /\ Len(mem_snapshots) = result[1].generated_token_count

\* C4: the result of a completed run carries a context summary, a latency
\* summary and a memory summary, none of them None.
C4_ResultHasSummaries ==
    Returned =>
        /\ {"context_summary", "latency_summary", "memory_summary"}
               \subseteq DOMAIN result[1]
        /\ \A f \in {"context_summary", "latency_summary", "memory_summary"} :
               result[1][f] # <<>>

\* ------------------------------------------------------------------------
\* Properties of the trackers (checked under Spec)
\* ------------------------------------------------------------------------
Summarized(k) == kind = k /\ last_op \in SummarizeOps /\ Len(ret) = 1

\* C5 (as stated): the context summary has remaining_tokens = max_context -
\* final_total_tokens after any sequence of record_step calls (here already
\* for a tracker with a positive max_context).
C5_AsStated ==
    Summarized("context") /\ ret[1].max_context > 0 =>
        ret[1].remaining_tokens = ret[1].max_context - ret[1].final_total_tokens

\* C5 (amended): the context summary has remaining_tokens = max_context -
\* final_total_tokens whenever final_total_tokens <= max_context; when the
\* last recorded total_tokens exceeds max_context, remaining_tokens is 0.
C5_RemainingClamped ==
    Summarized("context") =>
        /\ (ret[1].final_total_tokens <= ret[1].max_context =>
               ret[1].remaining_tokens =
                   ret[1].max_context - ret[1].final_total_tokens)
        /\ (ctx_snapshots # <<>> /\ ret[1].final_total_tokens > ret[1].max_context =>
               ret[1].remaining_tokens = 0)

C5_Witness ==
    /\ Summarized("context")
    /\ ret[1].max_context > 0
    /\ ret[1].final_total_tokens > ret[1].max_context
    /\ Len(ret[1].per_step_snapshots) >= 2

\* C6: every context snapshot and every context summary has a usage
\* fraction between 0.0 and 1.0 (0 and 1000000 millionths).
C6_UsageWithinUnit ==
    /\ \A i \in 1 .. Len(ctx_snapshots) :
           /\ 0 <= ctx_snapshots[i].context_used_pct
           /\ ctx_snapshots[i].context_used_pct <= 1000000
    /\ (Summarized("context") =>
           0 <= ret[1].context_used_pct /\ ret[1].context_used_pct <= 1000000)

\* The i-th record_step call had a usage of at least the threshold (usage is
\* 0.0 without a positive max_context).
Reached(i) ==
    LET snap == ctx_snapshots[i]
    IN  IF snap.max_context > 0
        THEN snap.total_tokens * 100 >= warn_threshold * snap.max_context
        ELSE 0 >= warn_threshold
ReachedCalls == {i \in 1 .. Len(ctx_snapshots) : Reached(i)}

\* C7: the warning is printed by the first record_step call whose usage is
\* >= warn_threshold (equality included), by no earlier and no later call,
\* and the summary's warning_issued tells whether some call reached the
\* threshold.
C7_WarnsAtFirstReach ==
    kind = "context" =>
        /\ (ReachedCalls = {} => stderr = <<>> /\ ~warning_issued)
        /\ (ReachedCalls # {} =>
               /\ Len(stderr) = 1
               /\ stderr[1].call \in ReachedCalls
               /\ \A i \in ReachedCalls : stderr[1].call <= i
               /\ warning_issued)
        /\ (Summarized("context") =>
               (ret[1].warning_issued <=> ReachedCalls # {}))

\* The warning came with the second call, whose usage equals a non-zero
\* threshold, after a call below it.
C7_Witness ==
    /\ Summarized("context")
    /\ ret[1].warning_issued
    /\ warn_threshold > 0
    /\ Len(stderr) = 1
    /\ stderr[1].call = 2
    /\ stderr[1].total_tokens * 100 = warn_threshold * max_context
    /\ ~Reached(1)

\* C8: once the warning flag of a ContextTracker is set it stays set, and
\* no later record_step prints a second warning.
C8_WarnsOnce ==
    [][/\ Len(stderr') <= 1
       /\ (warning_issued => warning_issued' /\ stderr' = stderr)]_vars

\* After the warning a call fell below the threshold and a later one
\* reached it again.
C8_Witness ==
    /\ kind = "context"
    /\ warning_issued
    /\ Len(stderr) = 1
    /\ Len(ctx_snapshots) = 3
    /\ stderr[1].call = 1
    /\ ~Reached(2)
    /\ Reached(3)

\* C9: summarize() changes no field of its tracker, and a summarize() that
\* directly follows another returns the same summary.
C9_SummarizeIdempotent ==
    [][last_op' \in SummarizeOps =>
          /\ <<ctxVars, latVars, memVars>>' = <<ctxVars, latVars, memVars>>
          /\ (last_op' = "summarize_again" => ret' = ret)]_vars

C9_Witness ==
    /\ kind = "memory"
    /\ last_op = "summarize_again"
    /\ initial_rss # None
    /\ Len(ret) = 1
    /\ Len(ret[1].per_step_snapshots) >= 2

\* C10: the memory summary has peak_memory_mb >= current_memory_mb after
\* any sequence of start() and record_step() calls.
C10_PeakAtLeastCurrent ==
    Summarized("memory") => ret[1].peak_memory_mb >= ret[1].current_memory_mb

\* The baseline the memory summary is computed against (0 before start()).
Baseline == IF initial_rss = None THEN 0 ELSE initial_rss

\* C11: the memory summary's total growth is the last sampled RSS minus the
\* stored baseline RSS, in bytes before rounding, so that it equals
\* current_memory_mb - initial_memory_mb up to one hundredth of a MiB.
C11_GrowthIsCurrentMinusInitial ==
    Summarized("memory") =>
        LET current == IF mem_snapshots = <<>> THEN Baseline
                       ELSE mem_snapshots[Len(mem_snapshots)].rss_bytes
            diff == ret[1].memory_growth_total_mb -
                        (ret[1].current_memory_mb - ret[1].initial_memory_mb)
        IN  /\ ret[1].initial_memory_mb = RoundMb2(Baseline)
            /\ ret[1].current_memory_mb = RoundMb2(current)
            /\ ret[1].memory_growth_total_mb = RoundMb2(current - Baseline)
            /\ 0 - 1 <= diff /\ diff <= 1

\* start() was called after the first step and the last sample lies below
\* an earlier one.
C11_Witness ==
    /\ Summarized("memory")
    /\ initial_rss # None
    /\ Len(mem_snapshots) = 2
    /\ mem_snapshots[2].rss_bytes < mem_snapshots[1].rss_bytes
    /\ ret[1].memory_growth_total_mb > 0

\* C12: without a start() call the baseline is the RSS of the first recorded
\* sample: every snapshot's delta, the summary's initial memory and its total
\* growth are measured against that sample.
C12_BaselineIsFirstSample ==
    kind = "memory" /\ initial_rss = None /\ mem_snapshots # <<>> =>
        LET first == mem_snapshots[1].rss_bytes
            last == mem_snapshots[Len(mem_snapshots)].rss_bytes
        IN  /\ \A i \in 1 .. Len(mem_snapshots) :
                   mem_snapshots[i].delta_from_start_mb =
                       RoundMb2(mem_snapshots[i].rss_bytes - first)
            /\ (Summarized("memory") =>
                   /\ ret[1].initial_memory_mb = RoundMb2(first)
                   /\ ret[1].memory_growth_total_mb = RoundMb2(last - first))

\* C13: with no step recorded the memory summary has initial memory =
\* current memory = the baseline stored by start() (0 before start()), and
\* total growth, average growth per token and growth per 100 tokens are 0.
C13_EmptyMemorySummary ==
    Summarized("memory") /\ mem_snapshots = <<>> =>
        /\ ret[1].initial_memory_mb = RoundMb2(Baseline)
        /\ ret[1].current_memory_mb = ret[1].initial_memory_mb
        /\ ret[1].memory_growth_total_mb = 0
        /\ ret[1].avg_growth_per_token_mb = 0
        /\ ret[1].growth_per_100_tokens_mb = 0
        /\ ret[1].per_step_snapshots = <<>>

C13_Witness ==
    /\ Summarized("memory")
    /\ mem_snapshots = <<>>
    /\ initial_rss # None
    /\ ret[1].current_memory_mb > 100

\* Sum of the latencies of the snapshots at positions lo .. hi.
RECURSIVE LatencySum(_, _, _)
LatencySum(snaps, lo, hi) ==
    IF lo > hi THEN 0 ELSE snaps[lo].latency_ms + LatencySum(snaps, lo + 1, hi)

SumOver(snaps, f(_)) == SeqSum([i \in 1 .. Len(snaps) |-> f(snaps[i])])

C16_AsStated ==
    Summarized("latency") /\ Len(lat_snapshots) >= 1 =>
        /\ Len(ret[1].ttft_ms) = 1
        /\ ret[1].ttft_ms[1] > 0
        /\ start_time # None
        /\ \E i \in 1 .. Len(lat_snapshots) :
              /\ lat_snapshots[i].step = 0
              /\ ret[1].ttft_ms[1] = lat_snapshots[i].timestamp - start_time

\* C16 (amended): ttft_ms is set only by a record_step with step 0 made while
\* a baseline exists, to the step's end time minus that baseline; every other
\* record_step and start() leave it unchanged, it is null until such a call,
\* and summarize() with at least one snapshot reports the stored value.
C16_TtftSetAtStepZero ==
    [][kind = "latency" =>
          /\ (lat_snapshots' # lat_snapshots =>
                 IF args'[1] = 0 /\ start_time # None
                 THEN ttft_ms' = <<args'[3] - start_time>>
                 ELSE ttft_ms' = ttft_ms)
          /\ (lat_snapshots' = lat_snapshots => ttft_ms' = ttft_ms)
          /\ (last_op' \in SummarizeOps /\ lat_snapshots # <<>> =>
                 ret'[1].ttft_ms = ttft_ms)
          /\ (ttft_ms' # <<>> =>
                 \E i \in 1 .. Len(lat_snapshots') : lat_snapshots'[i].step = 0)]_vars

C16_Witness ==
    /\ Summarized("latency")
    /\ Len(lat_snapshots) = 2
    /\ lat_snapshots[1].step = 0
    /\ lat_snapshots[2].step = 1
    /\ start_time = 0
    /\ lat_snapshots[1].timestamp = 1
    /\ ret[1].ttft_ms = <<1>>

\* The step indices of a snapshot sequence.
StepsOf(snaps) == [i \in 1 .. Len(snaps) |-> snaps[i].step]

\* C17 (as stated): in each tracker's snapshot sequence the snapshot at
\* position i (counted from 0) has step index i.
C17_AsStated ==
    /\ StepsOf(ctx_snapshots) = [i \in 1 .. Len(ctx_snapshots) |-> i - 1]
    /\ StepsOf(lat_snapshots) = [i \in 1 .. Len(lat_snapshots) |-> i - 1]
    /\ StepsOf(mem_snapshots) = [i \in 1 .. Len(mem_snapshots) |-> i - 1]

\* C17 (amended): a record_step appends one snapshot whose step index is the
\* call's step argument, and no operation changes the step indices recorded
\* before.
C17_StepIsArgument ==
    [][LET Appended(old, new) ==
               new # old => /\ new # <<>>
                            /\ SubSeq(StepsOf(new), 1, Len(new) - 1) = StepsOf(old)
                            /\ last_op' = "record_step"
                            /\ new[Len(new)].step = args'[1]
       IN  /\ Appended(ctx_snapshots, ctx_snapshots')
           /\ Appended(lat_snapshots, lat_snapshots')
           /\ Appended(mem_snapshots, mem_snapshots')]_vars

C17_Witness ==
    /\ kind = "context"
    /\ last_op = "record_step"
    /\ StepsOf(ctx_snapshots) = <<1, 0>>
    /\ args[1] = 0

\* C18: the guarded edge states return fallback values and no operation is
\* refused there: a context tracker with max_context <= 0 accepts record_step
\* and records usage 0.0; a latency summarize() of an empty history returns
\* all-null fields; the latency trend is null with fewer than 2 snapshots or
\* when n*Sxx - Sx*Sx is zero.
C18_FallbackValues ==
    /\ (kind = "context" /\ max_context <= 0 =>
           /\ \A i \in 1 .. Len(ctx_snapshots) : ctx_snapshots[i].context_used_pct = 0
           /\ ENABLED ContextTracker_record_step(0, MaxTotalTokens)
           /\ ENABLED ContextTracker_summarize
           /\ (Summarized("context") => ret[1].context_used_pct = 0))
    /\ (kind = "latency" /\ (\A i, j \in 1 .. Len(lat_snapshots) :
                                lat_snapshots[i].step = lat_snapshots[j].step) =>
           ENABLED LatencyTracker_summarize)
    /\ (Summarized("latency") =>
           LET snaps == ret[1].per_step_snapshots
               n == Len(snaps)
               Sx == SumOver(snaps, LAMBDA p : p.step)
               Sxx == SumOver(snaps, LAMBDA p : p.step * p.step)
           IN  /\ (lat_snapshots = <<>> =>
                      ret[1] = [ttft_ms |-> <<>>,
                                current_token_latency_ms |-> <<>>,
                                rolling_avg_ms |-> <<>>,
                                trend_ms_per_100_tokens |-> <<>>,
                                per_step_snapshots |-> <<>>])
               /\ (n < 2 \/ n * Sxx - Sx * Sx = 0 =>
                      ret[1].trend_ms_per_100_tokens = <<>>))

C18_Witness ==
    /\ Summarized("latency")
    /\ Len(lat_snapshots) = 2
    /\ lat_snapshots[1].step = lat_snapshots[2].step
    /\ lat_snapshots[1].latency_ms # lat_snapshots[2].latency_ms
    /\ ret[1].trend_ms_per_100_tokens = <<>>

\* ------------------------------------------------------------------------
\* What a summary depends on (checked under Spec)
\* ------------------------------------------------------------------------
\* C19 (as stated): a tracker's summary is a function of its snapshot sequence
\* and its configuration only, so no operation that leaves the snapshot
\* sequence as it is changes the summary the tracker returns.
C19_AsStated ==
    [][/\ ctx_snapshots' = ctx_snapshots => ContextSummary' = ContextSummary
       /\ lat_snapshots' = lat_snapshots => LatencySummary' = LatencySummary
       /\ mem_snapshots' = mem_snapshots => MemorySummary' = MemorySummary]_vars

\* C19 (amended): the context summary is a function of the snapshot sequence,
\* max_context and warn_threshold; the latency summary is a function of the
\* snapshot sequence, the rolling window and the stored ttft_ms; the memory
\* summary is a function of the snapshot sequence, the stored baseline and
\* the stored peak.
C19_SummaryInputs ==
    /\ (Summarized("context") =>
           LET n == Len(ctx_snapshots)
               Reaches(p) == IF max_context > 0
                             THEN p.total_tokens * 100 >= warn_threshold * max_context
                             ELSE 0 >= warn_threshold
           IN  ret[1] =
                   [max_context |-> max_context,
                    final_total_tokens |->
                        IF n = 0 THEN 0 ELSE ctx_snapshots[n].total_tokens,
                    context_used_pct |->
                        IF n = 0 THEN 0 ELSE ctx_snapshots[n].context_used_pct,
                    remaining_tokens |->
                        IF n = 0 THEN max_context ELSE ctx_snapshots[n].remaining_tokens,
                    per_step_snapshots |-> ctx_snapshots,
                    warning_issued |-> \E i \in 1 .. n : Reaches(ctx_snapshots[i])])
    /\ (Summarized("latency") =>
           LET n == Len(lat_snapshots)
               k == Min(rolling_window, n)
               Sx == SumOver(lat_snapshots, LAMBDA p : p.step)
               Sy == SumOver(lat_snapshots, LAMBDA p : p.latency_ms)
               Sxy == SumOver(lat_snapshots, LAMBDA p : p.step * p.latency_ms)
               Sxx == SumOver(lat_snapshots, LAMBDA p : p.step * p.step)
               avg == ret[1].rolling_avg_ms
               trend == ret[1].trend_ms_per_100_tokens
           IN  /\ ret[1].per_step_snapshots = lat_snapshots
               /\ ret[1].ttft_ms = IF n = 0 THEN <<>> ELSE ttft_ms
               /\ ret[1].current_token_latency_ms =
                      IF n = 0 THEN <<>> ELSE <<lat_snapshots[n].latency_ms>>
               /\ IF n = 0 THEN avg = <<>>
                  ELSE /\ Len(avg) = 1
                       /\ avg[1].den > 0
                       /\ avg[1].num * k =
                              LatencySum(lat_snapshots, n - k + 1, n) * avg[1].den
               /\ IF n < 2 \/ n * Sxx - Sx * Sx = 0 THEN trend = <<>>
                  ELSE /\ Len(trend) = 1
                       /\ trend[1].den > 0
                       /\ trend[1].num * (n * Sxx - Sx * Sx) =
                              100 * (n * Sxy - Sx * Sy) * trend[1].den)
    /\ (Summarized("memory") =>
           LET n == Len(mem_snapshots)
               current == IF n = 0 THEN Baseline ELSE mem_snapshots[n].rss_bytes
               per_token == IF n = 0 THEN 0
                            ELSE RoundHalfEven((current - Baseline) * 625, 65536 * n)
           IN  ret[1] =
                   [initial_memory_mb |-> RoundMb2(Baseline),
                    current_memory_mb |-> RoundMb2(current),
                    peak_memory_mb |-> RoundMb2(peak_rss),
                    memory_growth_total_mb |-> RoundMb2(current - Baseline),
                    avg_growth_per_token_mb |-> per_token,
                    growth_per_100_tokens_mb |-> per_token,
                    per_step_snapshots |-> mem_snapshots])

\* A latency summary whose ttft_ms the snapshots do not determine: a step 0
\* was recorded, and it was recorded without a baseline.
C19_Witness ==
    /\ Summarized("latency")
    /\ lat_snapshots # <<>>
    /\ lat_snapshots[1].step = 0
    /\ ret[1].ttft_ms = <<>>

\* ------------------------------------------------------------------------
\* Model invocations of a run (checked under SpecRun)
\* ------------------------------------------------------------------------
\* C20: in every run (here already for max_tokens >= 0) the full prompt is
\* submitted to the model exactly once, as the first invocation and with no
\* cache handle; every later invocation submits exactly the token selected in
\* the preceding iteration, with the cache handle the preceding invocation
\* returned.
C20_PromptSubmittedOnce ==
    pc \in {"returned", "raised"} /\ max_tokens >= 0 =>
        /\ Len(model_calls) >= 1
        /\ model_calls[1] = [input_ids |-> prompt_ids, past_key_values |-> None]
        /\ \A k \in 2 .. Len(model_calls) :
              /\ model_calls[k].input_ids = <<generated_ids[k - 1]>>
              /\ model_calls[k].past_key_values = k - 1

\* ------------------------------------------------------------------------
\* Termination of a run whose forward passes return (checked under
\* SpecReturns)
\* ------------------------------------------------------------------------
\* The run ended by selecting the end-of-sequence token: its last forward
\* pass appended nothing.
EosSelected == Len(generated_ids) < Len(model_calls)

\* C21 (as stated): the run terminates after at most max_tokens iterations in
\* EndOfSequence or MaxTokensReached, the latter iff max_tokens iterations
\* complete without end-of-sequence, and then generated_token_count =
\* max_tokens.
C21_AsStated ==
    Returned =>
        /\ terminal \in {"EndOfSequence", "MaxTokensReached"}
        /\ Len(model_calls) <= max_tokens
        /\ (terminal = "MaxTokensReached" <=>
                Len(model_calls) = max_tokens /\ ~EosSelected)
        /\ (terminal = "MaxTokensReached" =>
                result[1].generated_token_count = max_tokens)

\* C21 (amended): the run terminates, after at most max(max_tokens, 0)
\* iterations, in EndOfSequence or MaxTokensReached, the latter iff
\* max(max_tokens, 0) iterations complete without end-of-sequence, and then
\* generated_token_count = max(max_tokens, 0).
C21_Terminates ==
    /\ <>Returned
    /\ [](Returned =>
            /\ terminal \in {"EndOfSequence", "MaxTokensReached"}
            /\ Len(model_calls) <= Max(max_tokens, 0)
            /\ (terminal = "EndOfSequence" <=> EosSelected)
            /\ (terminal = "MaxTokensReached" <=>
                    Len(model_calls) = Max(max_tokens, 0) /\ ~EosSelected)
            /\ (terminal = "MaxTokensReached" =>
                    result[1].generated_token_count = Max(max_tokens, 0)))
    /\ [](pc # "raised" /\ (~Returned => terminal = "none"))

C21_Witness ==
    /\ Returned
    /\ terminal = "MaxTokensReached"
    /\ max_tokens = MaxTokens
    /\ Len(model_calls) = MaxTokens
    /\ eos_token_id # None

\* ------------------------------------------------------------------------
\* Failure of a forward pass (checked under SpecRun)
\* ------------------------------------------------------------------------
\* C22: when a forward pass fails, at the prompt-carrying call or at a later
\* single-token call, the run has no result and no terminal state, the failed
\* call is the last the model receives, and nothing of the run goes on.
C22_FailurePropagates ==
    pc = "raised" =>
        /\ result = <<>>
        /\ terminal = "none"
        /\ model_calls # <<>>
        /\ Len(model_calls) = step + 1
        /\ model_calls[Len(model_calls)] =
               [input_ids |-> current_input_ids, past_key_values |-> past_key_values]
        /\ ~ ENABLED NextRun

\* The failure of a single-token call, after tokens were generated.
C22_Witness ==
    /\ pc = "raised"
    /\ Len(model_calls) >= 2
    /\ generated_ids # <<>>
    /\ Len(model_calls[Len(model_calls)].input_ids) = 1
    /\ result = <<>>

\* ------------------------------------------------------------------------
\* The context summary and the snapshot sequences (checked under Spec)
\* ------------------------------------------------------------------------
\* C23: the context summary of a tracker without a recorded step has usage
\* 0.0, remaining_tokens = max_context and no snapshots; otherwise its
\* final_total_tokens, context_used_pct and remaining_tokens are those of the
\* last recorded snapshot and its snapshots are the recorded sequence.
C23_ContextSummaryMirrorsLast ==
    Summarized("context") =>
        LET n == Len(ctx_snapshots)
        IN  /\ ret[1].per_step_snapshots = ctx_snapshots
            /\ ret[1].max_context = max_context
            /\ IF n = 0
               THEN /\ ret[1].context_used_pct = 0
                    /\ ret[1].final_total_tokens = 0
                    /\ ret[1].remaining_tokens = max_context
               ELSE /\ ret[1].final_total_tokens = ctx_snapshots[n].total_tokens
                    /\ ret[1].context_used_pct = ctx_snapshots[n].context_used_pct
                    /\ ret[1].remaining_tokens = ctx_snapshots[n].remaining_tokens

\* The last snapshot differs from the first in all three totals.
C23_Witness ==
    /\ Summarized("context")
    /\ Len(ctx_snapshots) >= 2
    /\ LET first == ctx_snapshots[1]
           last == ctx_snapshots[Len(ctx_snapshots)]
       IN  /\ first.total_tokens # last.total_tokens
           /\ first.context_used_pct # last.context_used_pct
           /\ first.remaining_tokens # last.remaining_tokens
           /\ ret[1].final_total_tokens = last.total_tokens

\* C24: a record_step appends exactly one snapshot at the end of its
\* tracker's sequence and leaves the snapshots recorded before where they
\* are; no other operation changes a snapshot sequence.
C24_AppendOnly ==
    [][LET Same(old, new) == new = old
           Appended(old, new) == Len(ret') = 1 /\ new = Append(old, ret'[1])
       IN  IF last_op' = "record_step"
           THEN \/ /\ Appended(ctx_snapshots, ctx_snapshots')
                   /\ Same(lat_snapshots, lat_snapshots')
                   /\ Same(mem_snapshots, mem_snapshots')
                \/ /\ Same(ctx_snapshots, ctx_snapshots')
                   /\ Appended(lat_snapshots, lat_snapshots')
                   /\ Same(mem_snapshots, mem_snapshots')
                \/ /\ Same(ctx_snapshots, ctx_snapshots')
                   /\ Same(lat_snapshots, lat_snapshots')
                   /\ Appended(mem_snapshots, mem_snapshots')
           ELSE /\ Same(ctx_snapshots, ctx_snapshots')
                /\ Same(lat_snapshots, lat_snapshots')
                /\ Same(mem_snapshots, mem_snapshots')]_vars

\* A second snapshot was appended behind a different first one.
C24_Witness ==
    /\ kind = "memory"
    /\ last_op = "record_step"
    /\ Len(mem_snapshots) = 2
    /\ mem_snapshots[1] # mem_snapshots[2]
    /\ ret = <<mem_snapshots[2]>>

\* ------------------------------------------------------------------------
\* A tokenizer without an end-of-sequence id (checked under SpecReturns)
\* ------------------------------------------------------------------------
\* C25: with eos_token_id None no selected token stops the loop early: the
\* run never ends in EndOfSequence, and for every max_tokens >= 0 it returns
\* after max_tokens iterations with generated_token_count = max_tokens.
C25_NoEosNoEarlyStop ==
    eos_token_id = None =>
        /\ terminal # "EndOfSequence"
        /\ Len(generated_ids) = Len(model_calls)
        /\ (Returned /\ max_tokens >= 0 =>
               /\ terminal = "MaxTokensReached"
               /\ Len(model_calls) = max_tokens
               /\ result[1].generated_token_count = max_tokens)

\* Every token of the vocabulary was selected in a run without an
\* end-of-sequence id.
C25_Witness ==
    /\ Returned
    /\ eos_token_id = None
    /\ max_tokens = MaxTokens
    /\ result[1].generated_token_count = MaxTokens
    /\ \A t \in Vocab : \E i \in 1 .. Len(generated_ids) : generated_ids[i] = t

\* ------------------------------------------------------------------------
\* The `run` subcommand (checked under SpecCli)
\* ------------------------------------------------------------------------
\* C26: the `run` subcommand calls run_inference with the prompt, max-tokens
\* and warn-threshold it was given, and the call raises no argument or
\* attribute error.
C26_CliRunCompletes ==
    kind = "cli" /\ last_op # "init" =>
        /\ args = <<prompt_ids, max_tokens, warn_threshold>>
        /\ last_op = "run_inference"
        /\ pc # "raised"
        /\ ret = <<>>

====
